---- MODULE Spec2Model ----
(***************************************************************************)
(* EncodingUtil (encoding_util.hpp): the UTF-8 / GBK detector, the         *)
(* low-level transcoders of both builds (iconv, Win32) and the smart       *)
(* converters, as a state machine of one caller issuing calls on byte      *)
(* strings.                                                                *)
(*                                                                         *)
(* Bytes are integers 0..255 and a string / string_view is a sequence of   *)
(* bytes.  Indices are 1-based here and 0-based in the source.             *)
(***************************************************************************)
EXTENDS Integers, Sequences, FiniteSets, TLC

(***************************************************************************)
(* Bounds of the model.                                                    *)
(***************************************************************************)
\* Longest input enumerated exhaustively over Alphabet.
MaxLen == 3

\* Size of the working buffer handed to each iconv() call.  The source
\* allocates 4096 bytes; the model scales it down so that inputs of a few
\* characters fill it and iconv() reports E2BIG.  It must hold at least one
\* whole output character (4 bytes), as 4096 does.
OutBufferSize == 4

\* Longest input enumerated exhaustively over BoundaryBytes.
ScanLen == 3

\* Number of threads that call the library at the same time.
NumThreads == 2

\* One representative byte per class the two grammars distinguish:
\*   20 ASCII below the GBK trail range     41 ASCII inside the GBK trail range
\*   81 A5 BA  UTF-8 continuation bytes that are also GBK lead/trail bytes
\*   C3 UTF-8 2-byte lead   E4 UTF-8 3-byte lead   F0 UTF-8 4-byte lead
\*   FE invalid in UTF-8, GBK lead/trail     FF invalid in both
Alphabet == {\h20, \h41, \h81, \hA5, \hBA, \hC3, \hE4, \hF0, \hFE, \hFF}

\* The strings of tests/test_main.cpp and of the scenarios, byte for byte.
gbk_hello_world == <<\hC4, \hE3, \hBA, \hC3, \hCA, \hC0, \hBD, \hE7>>
utf8_hello_world ==
    <<\hE4, \hBD, \hA0, \hE5, \hA5, \hBD, \hE4, \hB8, \h96, \hE7, \h95, \h8C>>
utf8_with_emoji == <<\h41, \hF0, \h9F, \h98, \h82>>
broken_gbk == <<\h81, \h20>>
incomplete_utf8 == <<\hE4, \hBD>>
incomplete_gbk == <<\hC4>>
invalid_byte == <<\hFF, \hFE>>

\* Inputs on which the service fails only after a full working buffer has
\* been appended to the result: two GBK characters then the unassigned pair
\* A5 41, and three UTF-8 characters then U+1F602.
gbk_then_unassigned == <<\hC4, \hE3, \hBA, \hC3, \hA5, \h41>>
utf8_then_emoji ==
    <<\hE4, \hBD, \hA0, \hE5, \hA5, \hBD, \hE4, \hB8, \h96, \hF0, \h9F, \h98, \h82>>

TestVectors ==
    { gbk_hello_world, utf8_hello_world, utf8_with_emoji, broken_gbk,
      incomplete_utf8, incomplete_gbk, invalid_byte,
      gbk_then_unassigned, utf8_then_emoji,
      <<\h80>>, <<\h81, \h7F>>, <<\hC1, \h20>>, <<\hF5>>,
      <<\hE0, \h80, \h80>>, <<\hED, \hA0, \h80>>, <<\hF4, \h90, \h80, \h80>> }

BoundedSeq(S, n) == UNION { [1..k -> S] : k \in 0..n }

Inputs == BoundedSeq(Alphabet, MaxLen) \cup TestVectors

\* The bytes at which a comparison of is_valid_gbk or validate_utf8 changes
\* its answer, on both sides of each bound:
\*   3F|40  7F|80  80|81  FE|FF      the GBK lead and trail ranges
\*   7F|80  BF|C0  C1|C2  DF|E0  EF|F0  F4|F5   the UTF-8 ranges
BoundaryBytes ==
    {\h3F, \h40, \h7F, \h80, \h81, \hBF, \hC0, \hC1, \hC2, \hDF, \hE0, \hEF,
     \hF0, \hF4, \hF5, \hFE, \hFF}

\* A 4-byte lead with two continuation bytes and a fourth byte that is or
\* is not one.
FourByteUnits ==
    { <<l, a, b, c>> : l \in {\hF0, \hF4}, a \in {\h80, \hBF}, b \in {\h80, \hBF},
                       c \in {\h7F, \h80, \hBF, \hC0} }

\* Two lead bytes, each followed by a byte that is or is not a trail byte.
TwoGbkPairs ==
    { <<l, t, m, u>> : l \in {\h81, \hFE}, t \in {\h40, \h7F, \hFE},
                       m \in {\h81, \hFE}, u \in {\h40, \h7F, \hFE} }

\* The inputs the two validators are run on by themselves.
DetailInputs ==
    BoundedSeq(BoundaryBytes, ScanLen) \cup FourByteUnits \cup TwoGbkPairs
        \cup { v \in TestVectors : Len(v) <= ScanLen + 1 }

(***************************************************************************)
(* The detector.                                                           *)
(***************************************************************************)
Encoding == {"UNKNOWN", "ASCII", "GBK", "UTF8"}

Utf8Status == {"VALID", "INVALID_SEQUENCE", "INCOMPLETE_SEQUENCE"}

\* byte & 0xC0
AndC0(byte) == (byte \div 64) * 64

\* The for loop of is_valid_gbk from position i on.
RECURSIVE is_valid_gbk_from(_, _)
is_valid_gbk_from(data, i) ==
    IF i > Len(data) THEN TRUE
    ELSE LET byte == data[i] IN
         IF byte <= \h7F THEN is_valid_gbk_from(data, i + 1)
         ELSE IF byte >= \h81 /\ byte <= \hFE
              THEN IF i + 1 > Len(data) THEN FALSE
                   ELSE LET trail_byte == data[i + 1] IN
                        IF trail_byte < \h40 \/ trail_byte > \hFE \/ trail_byte = \h7F
                        THEN FALSE
                        ELSE is_valid_gbk_from(data, i + 2)
              ELSE FALSE

\* Fault: 0x7F is accepted as a trail byte.
is_valid_gbk_trail_7f(data) ==
    is_valid_gbk_from([i \in 1..Len(data) |-> IF data[i] = \h7F THEN \h40 ELSE data[i]], 1)

is_valid_gbk(data) == is_valid_gbk_from(data, 1)

\* The offsets at which the for loop of is_valid_gbk reads data, from
\* position i on (offsets count from 0 as in the source).
RECURSIVE is_valid_gbk_reads(_, _)
is_valid_gbk_reads(data, i) ==
    IF i > Len(data) THEN {}
    ELSE LET byte == data[i] IN
         {i - 1} \cup
         (IF byte <= \h7F THEN is_valid_gbk_reads(data, i + 1)
          ELSE IF byte >= \h81 /\ byte <= \hFE
               THEN IF i + 1 > Len(data) THEN {}
                    ELSE LET trail_byte == data[i + 1] IN
                         {i} \cup
                         (IF trail_byte < \h40 \/ trail_byte > \hFE \/ trail_byte = \h7F
                          THEN {}
                          ELSE is_valid_gbk_reads(data, i + 2))
               ELSE {})

\* The for loop of validate_utf8 from position i on, with the loop's locals.
RECURSIVE validate_utf8_from(_, _, _, _)
validate_utf8_from(data, i, bytes_to_check, all_ascii) ==
    IF i > Len(data)
    THEN [status |-> IF bytes_to_check = 0 THEN "VALID" ELSE "INCOMPLETE_SEQUENCE",
          is_all_ascii |-> all_ascii]
    ELSE LET byte == data[i]
             ascii == IF byte > \h7F THEN FALSE ELSE all_ascii
         IN  IF bytes_to_check > 0
             THEN IF AndC0(byte) # \h80
                  THEN [status |-> "INVALID_SEQUENCE", is_all_ascii |-> ascii]
                  ELSE validate_utf8_from(data, i + 1, bytes_to_check - 1, ascii)
             ELSE IF byte >= \hC2 /\ byte <= \hDF
                  THEN validate_utf8_from(data, i + 1, 1, ascii)
             ELSE IF byte >= \hE0 /\ byte <= \hEF
                  THEN validate_utf8_from(data, i + 1, 2, ascii)
             ELSE IF byte >= \hF0 /\ byte <= \hF4
                  THEN validate_utf8_from(data, i + 1, 3, ascii)
             ELSE IF byte >= \h80
                  THEN [status |-> "INVALID_SEQUENCE", is_all_ascii |-> ascii]
             ELSE validate_utf8_from(data, i + 1, bytes_to_check, ascii)

\* Fault: out_is_all_ascii is never set to true.
validate_utf8_flag_unset(data) == validate_utf8_from(data, 1, 0, FALSE)

\* Fault: the 2-byte lead range starts at 0xC0 instead of 0xC2.
validate_utf8_c0_lead(data) ==
    validate_utf8_from([i \in 1..Len(data) |->
                           IF data[i] = \hC0 \/ data[i] = \hC1 THEN \hC2 ELSE data[i]],
                       1, 0, TRUE)

\* Fault: the byte after a lead byte is range-checked as strict UTF-8 asks
\* (E0 A0..BF, ED 80..9F, F0 90..BF, F4 80..8F).
validate_utf8_strict(data) ==
    IF \E i \in 1..(Len(data) - 1) :
          \/ data[i] = \hE0 /\ data[i + 1] < \hA0
          \/ data[i] = \hED /\ data[i + 1] >= \hA0
          \/ data[i] = \hF0 /\ data[i + 1] < \h90
          \/ data[i] = \hF4 /\ data[i + 1] >= \h90
    THEN [status |-> "INVALID_SEQUENCE", is_all_ascii |-> FALSE]
    ELSE validate_utf8_from(data, 1, 0, TRUE)

validate_utf8(data) == validate_utf8_from(data, 1, 0, TRUE)

\* Fault: a truncated UTF-8 sequence is handed to the GBK check like an
\* invalid one.
detect_encoding_incomplete_to_gbk(sv) ==
    IF sv = <<>> THEN "ASCII"
    ELSE LET v == validate_utf8(sv) IN
         CASE v.status = "VALID" -> IF v.is_all_ascii THEN "ASCII" ELSE "UTF8"
           [] OTHER -> IF is_valid_gbk(sv) THEN "GBK" ELSE "UNKNOWN"

\* Fault: bytes that fail both grammars leave the switch without a value.
detect_encoding_no_default(sv) ==
    IF sv = <<>> THEN "ASCII"
    ELSE LET v == validate_utf8(sv) IN
         CASE v.status = "VALID" -> IF v.is_all_ascii THEN "ASCII" ELSE "UTF8"
           [] v.status = "INCOMPLETE_SEQUENCE" -> "UNKNOWN"
           [] v.status = "INVALID_SEQUENCE" ->
                  IF is_valid_gbk(sv) THEN "GBK" ELSE "NO_VALUE"
           [] OTHER -> "NO_VALUE"

detect_encoding(sv) ==
    IF sv = <<>> THEN "ASCII"
    ELSE LET v == validate_utf8(sv) IN
         CASE v.status = "VALID" -> IF v.is_all_ascii THEN "ASCII" ELSE "UTF8"
           [] v.status = "INCOMPLETE_SEQUENCE" -> "UNKNOWN"
           [] v.status = "INVALID_SEQUENCE" ->
                  IF is_valid_gbk(sv) THEN "GBK" ELSE "UNKNOWN"
           [] OTHER -> "UNKNOWN"

\* The values bytes_to_check holds while the for loop of validate_utf8 runs
\* from position i on.
RECURSIVE bytes_to_check_values(_, _, _)
bytes_to_check_values(data, i, bytes_to_check) ==
    IF i > Len(data) THEN {bytes_to_check}
    ELSE LET byte == data[i] IN
         {bytes_to_check} \cup
         (IF bytes_to_check > 0
          THEN IF AndC0(byte) # \h80 THEN {}
               ELSE bytes_to_check_values(data, i + 1, bytes_to_check - 1)
          ELSE IF byte >= \hC2 /\ byte <= \hDF THEN bytes_to_check_values(data, i + 1, 1)
          ELSE IF byte >= \hE0 /\ byte <= \hEF THEN bytes_to_check_values(data, i + 1, 2)
          ELSE IF byte >= \hF0 /\ byte <= \hF4 THEN bytes_to_check_values(data, i + 1, 3)
          ELSE IF byte >= \h80 THEN {}
          ELSE bytes_to_check_values(data, i + 1, bytes_to_check))

is_utf8(sv) == LET enc == detect_encoding(sv) IN enc = "UTF8" \/ enc = "ASCII"

\* Fault: ASCII is not counted as GBK.
is_gbk_strict(sv) == detect_encoding(sv) = "GBK"

is_gbk(sv) == LET enc == detect_encoding(sv) IN enc = "GBK" \/ enc = "ASCII"

(***************************************************************************)
(* The transcoding service: iconv with the pairs ("UTF-8","GBK") and       *)
(* ("GBK","UTF-8").  It converts character by character from the input     *)
(* pointer on, writes into the caller's buffer, and stops at the first     *)
(* character it cannot take: an illegal or unassigned sequence or a        *)
(* character the target cannot represent (EILSEQ), a sequence cut short by *)
(* the end of the input (EINVAL), or a character that no longer fits the   *)
(* output buffer (E2BIG).                                                  *)
(***************************************************************************)
\* The part of the service's GBK table the inputs of the model reach, as
\* <<GBK code, Unicode code point>>.  A structurally well-formed pair that
\* is absent below (A5 41, FE FE, ...) is unassigned in the service's table
\* as well, and a code point absent below has no GBK code.
GbkTable ==
    {
      <<\h80, \h20AC>>, <<\h8141, \h4E04>>, <<\h8178, \h4E81>>, <<\h8181, \h4E96>>,
      <<\h81A5, \h4EF4>>, <<\h81BA, \h4F1C>>, <<\h81C3, \h4F31>>, <<\h81E4, \h4F77>>,
      <<\h81F0, \h4F8C>>, <<\h81FE, \h4FA2>>, <<\h958C, \h666B>>, <<\h96E7, \h682B>>,
      <<\h9882, \h69C0>>, <<\hA0E5, \h72B2>>, <<\hA5A5, \h30A5>>, <<\hA5BA, \h30BA>>,
      <<\hA5BD, \h30BD>>, <<\hA5C3, \h30C3>>, <<\hA5E4, \h30E4>>, <<\hA5F0, \h30F0>>,
      <<\hA8B2, \hFA>>, <<\hBA41, \h7BC8>>, <<\hBA81, \h7C1B>>, <<\hBAA5, \h4EA5>>,
      <<\hBABA, \h6C49>>, <<\hBAC3, \h597D>>, <<\hBAE4, \h8F70>>, <<\hBAF0, \h543C>>,
      <<\hBAFE, \h6E56>>, <<\hBDE7, \h754C>>, <<\hC341, \h8081>>, <<\hC381, \h8115>>,
      <<\hC3A5, \h6C13>>, <<\hC3BA, \h7164>>, <<\hC3C3, \h59B9>>, <<\hC3E4, \h5A29>>,
      <<\hC3F0, \h706D>>, <<\hC3FE, \h6478>>, <<\hC4E3, \h4F60>>, <<\hC8CB, \h4EBA>>,
      <<\hCAC0, \h4E16>>, <<\hE080, \h911D>>, <<\hE441, \h92A9>>, <<\hE481, \h92EA>>,
      <<\hE4A5, \h6D48>>, <<\hE4B8, \h6D93>>, <<\hE4BA, \h6D5C>>, <<\hE4BD, \h6D63>>,
      <<\hE4C3, \h6DBF>>, <<\hE4E4, \h6ED7>>, <<\hE4F0, \h6F2F>>, <<\hE4FE, \h6FD1>>,
      <<\hEDA0, \h980E>>, <<\hF041, \h9909>>, <<\hF081, \h994B>>, <<\hF09F, \h9983>>,
      <<\hF0A5, \h99A5>>, <<\hF0BA, \h9E37>>, <<\hF0C3, \h9E48>>, <<\hF0E4, \h75C4>>,
      <<\hF0F0, \h75E7>>, <<\hF0FE, \h7619>>, <<\hF490, \h9B6B>>, <<\hFE41, \hFA0D>> }

GbkCodes == { e[1] : e \in GbkTable }

UcsCodes == { e[2] : e \in GbkTable }

GbkToUcs == [ code \in GbkCodes |-> (CHOOSE e \in GbkTable : e[1] = code)[2] ]

UcsToGbk == [ cp \in UcsCodes |-> (CHOOSE e \in GbkTable : e[2] = cp)[1] ]

Decoded(cp, n) == [st |-> "ok", cp |-> cp, n |-> n]

Undecoded(err) == [st |-> err, cp |-> 0, n |-> 0]

\* One GBK character at s[i]: its code point and length, or the errno.
DecodeGbk(s, i) ==
    LET b == s[i] IN
    IF b <= \h7F THEN Decoded(b, 1)
    ELSE IF b \in GbkCodes THEN Decoded(GbkToUcs[b], 1)
    ELSE IF b < \h81 \/ b > \hFE THEN Undecoded("EILSEQ")
    ELSE IF i + 1 > Len(s) THEN Undecoded("EINVAL")
    ELSE LET code == b * 256 + s[i + 1] IN
         IF code \in GbkCodes THEN Decoded(GbkToUcs[code], 2)
         ELSE Undecoded("EILSEQ")

\* The value of the continuation bytes s[i+1 .. i+n-1] appended to acc,
\* "EILSEQ" at a byte that is not 10xxxxxx, "EINVAL" at the end of input.
RECURSIVE Utf8Tail(_, _, _, _)
Utf8Tail(s, i, k, acc) ==
    IF k = 0 THEN Decoded(acc, 0)
    ELSE IF i > Len(s) THEN Undecoded("EINVAL")
    ELSE IF AndC0(s[i]) # \h80 THEN Undecoded("EILSEQ")
    ELSE Utf8Tail(s, i + 1, k - 1, acc * 64 + (s[i] % 64))

\* One UTF-8 character at s[i], decoded strictly: no overlong form, no
\* surrogate, nothing above U+10FFFF.
DecodeUtf8(s, i) ==
    LET b == s[i]
        n == IF b >= \hC2 /\ b <= \hDF THEN 2
             ELSE IF b >= \hE0 /\ b <= \hEF THEN 3
             ELSE IF b >= \hF0 /\ b <= \hF7 THEN 4
             ELSE 0
        lead == IF n = 2 THEN b - \hC0 ELSE IF n = 3 THEN b - \hE0 ELSE b - \hF0
    IN  IF b <= \h7F THEN Decoded(b, 1)
        ELSE IF n = 0 THEN Undecoded("EILSEQ")
        ELSE LET t == Utf8Tail(s, i + 1, n - 1, lead) IN
             IF t.st # "ok" THEN t
             ELSE IF n = 3 /\ t.cp < \h800 THEN Undecoded("EILSEQ")
             ELSE IF n = 4 /\ t.cp < \h10000 THEN Undecoded("EILSEQ")
             ELSE IF t.cp > \h10FFFF THEN Undecoded("EILSEQ")
             ELSE IF t.cp >= \hD800 /\ t.cp <= \hDFFF THEN Undecoded("EILSEQ")
             ELSE Decoded(t.cp, n)

EncodeUtf8(cp) ==
    IF cp < \h80 THEN <<cp>>
    ELSE IF cp < \h800 THEN <<\hC0 + (cp \div 64), \h80 + (cp % 64)>>
    ELSE IF cp < \h10000
         THEN <<\hE0 + (cp \div 4096), \h80 + ((cp \div 64) % 64), \h80 + (cp % 64)>>
    ELSE <<\hF0 + (cp \div 262144), \h80 + ((cp \div 4096) % 64),
           \h80 + ((cp \div 64) % 64), \h80 + (cp % 64)>>

\* The GBK bytes of a code point, <<>> when GBK has none.
EncodeGbk(cp) ==
    IF cp <= \h7F THEN <<cp>>
    ELSE IF cp \notin UcsCodes THEN <<>>
    ELSE LET code == UcsToGbk[cp] IN
         IF code < 256 THEN <<code>> ELSE <<code \div 256, code % 256>>

\* iconv(cd, &in_buf, &in_bytes_left, &out_buf_ptr, &out_bytes_left) on the
\* input s read from position i, with out written so far into a buffer of
\* cap bytes.  pos is the first byte not consumed.
iconv_from(to_encoding, from_encoding, s, i, out, cap) ==
    LET from_at[at \in [pos : Nat, out : Seq(Nat)]] ==
          IF at.pos > Len(s)
          THEN [ret |-> 0, errno |-> "0", pos |-> at.pos, out |-> at.out]
          ELSE LET d == IF from_encoding = "GBK" THEN DecodeGbk(s, at.pos)
                        ELSE DecodeUtf8(s, at.pos)
               IN  IF d.st # "ok"
                   THEN [ret |-> -1, errno |-> d.st, pos |-> at.pos, out |-> at.out]
                   ELSE LET e == IF to_encoding = "GBK" THEN EncodeGbk(d.cp)
                                 ELSE EncodeUtf8(d.cp)
                        IN  IF e = <<>>
                            THEN [ret |-> -1, errno |-> "EILSEQ", pos |-> at.pos,
                                  out |-> at.out]
                            ELSE IF Len(at.out) + Len(e) > cap
                            THEN [ret |-> -1, errno |-> "E2BIG", pos |-> at.pos,
                                  out |-> at.out]
                            ELSE from_at[[pos |-> at.pos + d.n, out |-> at.out \o e]]
    IN  from_at[[pos |-> i, out |-> out]]

iconv(to_encoding, from_encoding, s, in_off, cap) ==
    iconv_from(to_encoding, from_encoding, s, in_off + 1, <<>>, cap)

(***************************************************************************)
(* The transcoding service of the Win32 build: MultiByteToWideChar and     *)
(* WideCharToMultiByte with the code pages 936 and CP_UTF8.  A wide string *)
(* is kept as its sequence of code points; WideLen counts UTF-16 units.    *)
(* Without MB_ERR_INVALID_CHARS a unit the code page cannot decode becomes *)
(* the default character instead of failing the call; a code point the     *)
(* target code page lacks becomes its default byte and raises the          *)
(* used-default-character signal.  For pairs outside GbkTable the real     *)
(* code page may hold a private-use mapping where the model puts the       *)
(* default character; no property below depends on which.                  *)
(***************************************************************************)
CP_UTF8 == 65001

MB_ERR_INVALID_CHARS == 8

\* '?', the default character of code page 936 in both directions.
DefaultChar == \h3F

\* Bytes that a unit which does not decode takes up: a DBCS lead byte takes
\* the byte after it along.
InvalidUnitLength(code_page, s, i) ==
    IF code_page = 936 /\ s[i] >= \h81 /\ s[i] <= \hFE /\ i + 1 <= Len(s) THEN 2 ELSE 1

RECURSIVE MbToWcFrom(_, _, _, _)
MbToWcFrom(code_page, flags, s, i) ==
    IF i > Len(s) THEN [ok |-> TRUE, wstr |-> <<>>]
    ELSE LET d == IF code_page = CP_UTF8 THEN DecodeUtf8(s, i) ELSE DecodeGbk(s, i) IN
         IF d.st = "ok"
         THEN LET rest == MbToWcFrom(code_page, flags, s, i + d.n) IN
              [ok |-> rest.ok, wstr |-> <<d.cp>> \o rest.wstr]
         ELSE IF flags = MB_ERR_INVALID_CHARS
         THEN [ok |-> FALSE, wstr |-> <<>>]
         ELSE LET rest == MbToWcFrom(code_page, flags, s,
                                     i + InvalidUnitLength(code_page, s, i)) IN
              [ok |-> rest.ok, wstr |-> <<DefaultChar>> \o rest.wstr]

\* Number of UTF-16 units of a wide string.
RECURSIVE WideLen(_)
WideLen(w) ==
    IF w = <<>> THEN 0
    ELSE (IF Head(w) >= \h10000 THEN 2 ELSE 1) + WideLen(Tail(w))

\* MultiByteToWideChar(code_page, flags, s, len, ...): the wide string and
\* the returned length, 0 when the call fails.
MultiByteToWideChar(code_page, flags, s) ==
    LET r == MbToWcFrom(code_page, flags, s, 1) IN
    IF r.ok THEN [len |-> WideLen(r.wstr), wstr |-> r.wstr]
    ELSE [len |-> 0, wstr |-> <<>>]

RECURSIVE WcToMbFrom(_, _, _)
WcToMbFrom(code_page, w, k) ==
    IF k > Len(w) THEN [bytes |-> <<>>, used_default |-> FALSE]
    ELSE LET e == IF code_page = CP_UTF8 THEN EncodeUtf8(w[k]) ELSE EncodeGbk(w[k])
             rest == WcToMbFrom(code_page, w, k + 1)
         IN  IF e = <<>>
             THEN [bytes |-> <<DefaultChar>> \o rest.bytes, used_default |-> TRUE]
             ELSE [bytes |-> e \o rest.bytes, used_default |-> rest.used_default]

\* WideCharToMultiByte(code_page, 0, w, len, ...): the bytes, the returned
\* length, and what the call writes through lpUsedDefaultChar.
WideCharToMultiByte(code_page, w) ==
    LET r == WcToMbFrom(code_page, w, 1) IN
    [len |-> Len(r.bytes), bytes |-> r.bytes, used_default |-> r.used_default]

(***************************************************************************)
(* The state: one caller, the call in progress and what it returned.       *)
(***************************************************************************)
VARIABLES
    build,          \* "iconv" or "win32": which branch of #ifdef _WIN32 is compiled
    pc,             \* "idle", "iconv_open", "iconv_loop", "win32" or "done"
    op,             \* the public function called
    input,          \* its argument
    outcome,        \* what the call returned or threw
    detect_calls,   \* calls of detect_encoding made by the current call
    lowlevel,       \* the low-level transcoder entered by the current call
    to_encoding,    \* iconv_convert's parameters
    from_encoding,
    cd,             \* the conversion descriptor: "none", "invalid", "open", "closed"
    in_buf,         \* offset of in_buf into input
    in_bytes_left,
    result,         \* iconv_convert's working result
    iconv_calls,    \* calls of iconv() made by the current call
    opens,          \* successful iconv_open calls of the current call
    closes,         \* iconv_close calls of the current call
    errno,          \* errno: "0", "EILSEQ", "EINVAL" or "E2BIG"
    from_cp,        \* convert_win32's parameters
    to_cp,
    has_used_default_char,
    winapi_calls,   \* Win32 conversion calls made by the current call
    stage,          \* 1 for a first call, 2 for the call that follows it
    first,          \* the first call, once a second one follows it
    threads,        \* per thread: the call it runs and the locals of that call
    out_buffers,    \* the out_buffer vectors, by cell
    errnos,         \* the errno cells
    handles         \* the conversion descriptors currently open in the service

vars == <<build, pc, op, input, outcome, detect_calls, lowlevel, to_encoding,
          from_encoding, cd, in_buf, in_bytes_left, result, iconv_calls,
          opens, closes, errno, from_cp, to_cp, has_used_default_char,
          winapi_calls, stage, first, threads, out_buffers, errnos, handles>>

\* The state of the single caller and the state of the concurrent callers.
caller_vars == <<build, pc, op, input, outcome, detect_calls, lowlevel,
                 to_encoding, from_encoding, cd, in_buf, in_bytes_left, result,
                 iconv_calls, opens, closes, errno, from_cp, to_cp,
                 has_used_default_char, winapi_calls, stage, first>>

thread_vars == <<threads, out_buffers, errnos, handles>>

Threads == 1..NumThreads

\* A thread that has not called yet.
IdleThread ==
    [pc |-> "idle", op |-> "", input |-> <<>>,
     outcome |-> [kind |-> "none", enc |-> "", flag |-> FALSE, bytes |-> <<>>, what |-> ""],
     to_encoding |-> "", from_encoding |-> "", cd |-> 0,
     in_buf |-> 0, in_bytes_left |-> 0, result |-> <<>>, ret |-> 0, out_len |-> 0]

frame == <<cd, in_buf, in_bytes_left, result, iconv_calls, opens, closes>>

win32_frame == <<from_cp, to_cp, has_used_default_char, winapi_calls>>

NoOutcome == [kind |-> "none", enc |-> "", flag |-> FALSE, bytes |-> <<>>, what |-> ""]

RetEncoding(e) == [NoOutcome EXCEPT !.kind = "encoding", !.enc = e]

RetBool(b) == [NoOutcome EXCEPT !.kind = "bool", !.flag = b]

RetBytes(s) == [NoOutcome EXCEPT !.kind = "bytes", !.bytes = s]

\* validate_utf8's return value and what it left in out_is_all_ascii.
RetStatus(v) == [NoOutcome EXCEPT !.kind = "status", !.enc = v.status,
                                  !.flag = v.is_all_ascii]

\* throw std::runtime_error(what)
Throw(what) == [NoOutcome EXCEPT !.kind = "error", !.what = what]

NoLowLevel == [fn |-> "", arg |-> <<>>]

NoFirst == [op |-> "", input |-> <<>>, outcome |-> NoOutcome]

Init ==
    /\ build \in {"iconv", "win32"}
    /\ pc = "idle"
    /\ op = ""
    /\ input = <<>>
    /\ outcome = NoOutcome
    /\ detect_calls = 0
    /\ lowlevel = NoLowLevel
    /\ to_encoding = ""
    /\ from_encoding = ""
    /\ cd = "none"
    /\ in_buf = 0
    /\ in_bytes_left = 0
    /\ result = <<>>
    /\ iconv_calls = 0
    /\ opens = 0
    /\ closes = 0
    /\ errno = "0"
    /\ from_cp = 0
    /\ to_cp = 0
    /\ has_used_default_char = FALSE
    /\ winapi_calls = 0
    /\ stage = 1
    /\ first = NoFirst
    /\ threads = [th \in Threads |-> IdleThread]
    /\ out_buffers = [c \in Threads |-> [k \in 1..OutBufferSize |-> 0]]
    /\ errnos = [c \in Threads |-> "0"]
    /\ handles = {}

(***************************************************************************)
(* The calls the caller makes.  A first call takes any input; a second     *)
(* call follows a finished first one the way the tests and the documented  *)
(* usage chain them: the round trip utf8_to_gbk(gbk_to_utf8(s)), the       *)
(* repeated to_utf8(to_utf8(s)), and a smart converter called on the bytes *)
(* a low-level transcoder was just called on.                              *)
(***************************************************************************)
Sequels ==
    { [after |-> "gbk_to_utf8", call |-> "utf8_to_gbk", on |-> "result"],
      [after |-> "gbk_to_utf8", call |-> "to_utf8",     on |-> "input"],
      [after |-> "utf8_to_gbk", call |-> "to_gbk",      on |-> "input"],
      [after |-> "to_utf8",     call |-> "to_utf8",     on |-> "result"] }

Begin(o, s) ==
    /\ \/ /\ pc = "idle"
          /\ s \in Inputs \cup DetailInputs
          /\ stage' = 1
          /\ first' = first
       \/ /\ pc = "done"
          /\ stage = 1
          /\ \E q \in Sequels :
                /\ q.after = op
                /\ q.call = o
                /\ \/ q.on = "input" /\ s = input
                   \/ q.on = "result" /\ outcome.kind = "bytes" /\ s = outcome.bytes
          /\ stage' = 2
          /\ first' = [op |-> op, input |-> input, outcome |-> outcome]
    /\ op' = o
    /\ input' = s
    /\ build' = build
    /\ UNCHANGED thread_vars

\* No conversion in progress: the locals of iconv_convert do not exist.
ClearFrame ==
    /\ to_encoding' = ""
    /\ from_encoding' = ""
    /\ cd' = "none"
    /\ in_buf' = 0
    /\ in_bytes_left' = 0
    /\ result' = <<>>
    /\ iconv_calls' = 0
    /\ opens' = 0
    /\ closes' = 0
    /\ errno' = errno

\* No conversion in progress: the locals of convert_win32 do not exist.
ClearWin32 ==
    /\ from_cp' = 0
    /\ to_cp' = 0
    /\ has_used_default_char' = FALSE
    /\ winapi_calls' = 0

\* The call returns or throws without touching the transcoder.
Finish(o) ==
    /\ pc' = "done"
    /\ outcome' = o
    /\ ClearFrame
    /\ ClearWin32

CallDetectEncoding(s) ==
    /\ Begin("detect_encoding", s)
    /\ detect_calls' = 1
    /\ lowlevel' = NoLowLevel
    /\ Finish(RetEncoding(detect_encoding(s)))

CallIsUtf8(s) ==
    /\ Begin("is_utf8", s)
    /\ detect_calls' = 1
    /\ lowlevel' = NoLowLevel
    /\ Finish(RetBool(is_utf8(s)))

CallIsGbk(s) ==
    /\ Begin("is_gbk", s)
    /\ detect_calls' = 1
    /\ lowlevel' = NoLowLevel
    /\ Finish(RetBool(is_gbk(s)))

\* detail::validate_utf8(data, size, out_is_all_ascii) called by itself.
CallValidateUtf8(s) ==
    /\ Begin("validate_utf8", s)
    /\ detect_calls' = 0
    /\ lowlevel' = NoLowLevel
    /\ Finish(RetStatus(validate_utf8(s)))

\* detail::is_valid_gbk(data, size) called by itself.
CallIsValidGbk(s) ==
    /\ Begin("is_valid_gbk", s)
    /\ detect_calls' = 0
    /\ lowlevel' = NoLowLevel
    /\ Finish(RetBool(is_valid_gbk(s)))

\* Entry of detail::iconv_convert(input, to, from), up to iconv_open.
iconv_convert(s, to, from) ==
    /\ to_encoding' = to
    /\ from_encoding' = from
    /\ cd' = "none"
    /\ in_buf' = 0
    /\ in_bytes_left' = 0
    /\ result' = <<>>
    /\ iconv_calls' = 0
    /\ opens' = 0
    /\ closes' = 0
    /\ errno' = errno
    /\ ClearWin32
    /\ IF s = <<>>
       THEN pc' = "done" /\ outcome' = RetBytes(<<>>)
       ELSE pc' = "iconv_open" /\ outcome' = NoOutcome

\* Entry of detail::convert_win32(input, from_cp, to_cp): the empty-input
\* test.  (input.size() > INT_MAX does not occur at the lengths modelled.)
convert_win32(s, from, to) ==
    /\ from_cp' = from
    /\ to_cp' = to
    /\ has_used_default_char' = FALSE
    /\ winapi_calls' = 0
    /\ ClearFrame
    /\ IF s = <<>>
       THEN pc' = "done" /\ outcome' = RetBytes(<<>>)
       ELSE pc' = "win32" /\ outcome' = NoOutcome

gbk_to_utf8(gbk_sv) ==
    /\ lowlevel' = [fn |-> "gbk_to_utf8", arg |-> gbk_sv]
    /\ IF build = "win32"
       THEN convert_win32(gbk_sv, 936, CP_UTF8)
       ELSE iconv_convert(gbk_sv, "UTF-8", "GBK")

\* Fault: the two encodings are passed in the wrong order.
utf8_to_gbk_swapped(utf8_sv) ==
    /\ lowlevel' = [fn |-> "utf8_to_gbk", arg |-> utf8_sv]
    /\ IF build = "win32"
       THEN convert_win32(utf8_sv, 936, CP_UTF8)
       ELSE iconv_convert(utf8_sv, "UTF-8", "GBK")

utf8_to_gbk(utf8_sv) ==
    /\ lowlevel' = [fn |-> "utf8_to_gbk", arg |-> utf8_sv]
    /\ IF build = "win32"
       THEN convert_win32(utf8_sv, CP_UTF8, 936)
       ELSE iconv_convert(utf8_sv, "GBK", "UTF-8")

CallGbkToUtf8(s) ==
    /\ Begin("gbk_to_utf8", s)
    /\ detect_calls' = 0
    /\ gbk_to_utf8(s)

CallUtf8ToGbk(s) ==
    /\ Begin("utf8_to_gbk", s)
    /\ detect_calls' = 0
    /\ utf8_to_gbk(s)

\* Fault: the ASCII case label is missing, so ASCII input reaches the default.
to_utf8_without_ascii(sv) ==
    LET enc == detect_encoding(sv) IN
    /\ detect_calls' = 1
    /\ CASE enc = "UTF8" ->
                lowlevel' = NoLowLevel /\ Finish(RetBytes(sv))
         [] enc = "GBK" -> gbk_to_utf8(sv)
         [] OTHER -> lowlevel' = NoLowLevel /\ Finish(Throw("to_utf8: unrecognized encoding"))

\* Fault: GBK input is handed to the transcoder of the other direction.
to_utf8_wrong_transcoder(sv) ==
    LET enc == detect_encoding(sv) IN
    /\ detect_calls' = 1
    /\ CASE enc = "UTF8" \/ enc = "ASCII" ->
                lowlevel' = NoLowLevel /\ Finish(RetBytes(sv))
         [] enc = "GBK" -> utf8_to_gbk(sv)
         [] OTHER -> lowlevel' = NoLowLevel /\ Finish(Throw("to_utf8: unrecognized encoding"))

\* Fault: the UTF8 case label has moved next to GBK, so input that is
\* already UTF-8 is transcoded as if it were GBK.
to_utf8_transcodes_utf8(sv) ==
    LET enc == detect_encoding(sv) IN
    /\ detect_calls' = 1
    /\ CASE enc = "ASCII" ->
                lowlevel' = NoLowLevel /\ Finish(RetBytes(sv))
         [] enc = "UTF8" \/ enc = "GBK" -> gbk_to_utf8(sv)
         [] OTHER -> lowlevel' = NoLowLevel /\ Finish(Throw("to_utf8: unrecognized encoding"))

to_utf8(sv) ==
    LET enc == detect_encoding(sv) IN
    /\ detect_calls' = 1
    /\ CASE enc = "UTF8" \/ enc = "ASCII" ->
                lowlevel' = NoLowLevel /\ Finish(RetBytes(sv))
         [] enc = "GBK" -> gbk_to_utf8(sv)
         [] OTHER -> lowlevel' = NoLowLevel /\ Finish(Throw("to_utf8: unrecognized encoding"))

\* Fault: input of unknown encoding is transcoded on a best-effort basis.
to_gbk_best_effort(sv) ==
    LET enc == detect_encoding(sv) IN
    /\ detect_calls' = 1
    /\ CASE enc = "GBK" \/ enc = "ASCII" ->
                lowlevel' = NoLowLevel /\ Finish(RetBytes(sv))
         [] OTHER -> utf8_to_gbk(sv)

to_gbk(sv) ==
    LET enc == detect_encoding(sv) IN
    /\ detect_calls' = 1
    /\ CASE enc = "GBK" \/ enc = "ASCII" ->
                lowlevel' = NoLowLevel /\ Finish(RetBytes(sv))
         [] enc = "UTF8" -> utf8_to_gbk(sv)
         [] OTHER -> lowlevel' = NoLowLevel /\ Finish(Throw("to_gbk: unrecognized encoding"))

CallToUtf8(s) ==
    /\ Begin("to_utf8", s)
    /\ to_utf8(s)

CallToGbk(s) ==
    /\ Begin("to_gbk", s)
    /\ to_gbk(s)

(***************************************************************************)
(* detail::iconv_convert after its empty-input test.                       *)
(***************************************************************************)
\* iconv_open succeeds; the guard takes the descriptor; the locals are set.
IconvOpen ==
    /\ pc = "iconv_open"
    /\ cd' = "open"
    /\ opens' = opens + 1
    /\ in_bytes_left' = Len(input)
    /\ in_buf' = 0
    /\ result' = <<>>
    /\ pc' = "iconv_loop"
    /\ UNCHANGED <<build, op, input, outcome, detect_calls, lowlevel, to_encoding,
                   from_encoding, iconv_calls, closes, errno, win32_frame,
                   stage, first, thread_vars>>

\* iconv_open returns (iconv_t)-1 (no descriptor left, out of memory): the
\* function throws before the guard exists.
IconvOpenFail ==
    /\ pc = "iconv_open"
    /\ cd' = "invalid"
    /\ outcome' = Throw("iconv_open")
    /\ pc' = "done"
    /\ UNCHANGED <<build, op, input, detect_calls, lowlevel, to_encoding,
                   from_encoding, in_buf, in_bytes_left, result, iconv_calls,
                   opens, closes, errno, win32_frame, stage, first, thread_vars>>

\* ~IconvGuard()
\* Fault: the guard's test is inverted, so the destructor closes only the
\* invalid descriptor and leaves every opened one open.
IconvGuardClose_inverted ==
    IF cd = "invalid"
    THEN cd' = "closed" /\ closes' = closes + 1
    ELSE UNCHANGED <<cd, closes>>

IconvGuardClose ==
    IF cd # "invalid"
    THEN cd' = "closed" /\ closes' = closes + 1
    ELSE UNCHANGED <<cd, closes>>

\* Fault: the loop returns what it has converted so far instead of throwing
\* when the service reports a character it cannot convert.
iconv_failure_returns_partial(err, partial) ==
    IF err = "EILSEQ" THEN RetBytes(partial)
    ELSE Throw("iconv: errno")

\* What the loop throws when iconv() returns -1 with an errno other than
\* E2BIG; partial is the working result, which the throw abandons.
iconv_failure(err, partial) ==
    IF err = "EILSEQ" \/ err = "EINVAL"
    THEN Throw("iconv: unrepresentable or invalid")
    ELSE Throw("iconv: errno")

\* Fault: the E2BIG branch continues the loop without appending what the
\* service had written into the full buffer.
IconvStep_drops_chunk ==
    /\ pc = "iconv_loop"
    /\ in_bytes_left > 0
    /\ cd = "open"
    /\ LET r == iconv(to_encoding, from_encoding, input, in_buf, OutBufferSize)
           left == Len(input) - (r.pos - 1)
           appended == result \o r.out
       IN  /\ iconv_calls' = iconv_calls + 1
           /\ errno' = r.errno
           /\ in_buf' = r.pos - 1
           /\ in_bytes_left' = left
           /\ IF r.ret = -1
              THEN IF r.errno = "E2BIG"
                   THEN /\ result' = result
                        /\ outcome' = outcome
                        /\ pc' = "iconv_loop"
                        /\ UNCHANGED <<cd, closes>>
                   ELSE /\ outcome' = iconv_failure(r.errno, appended)
                        /\ result' = result
                        /\ IconvGuardClose
                        /\ pc' = "done"
              ELSE /\ result' = appended
                   /\ IF left > 0
                      THEN /\ outcome' = outcome
                           /\ pc' = "iconv_loop"
                           /\ UNCHANGED <<cd, closes>>
                      ELSE /\ outcome' = RetBytes(appended)
                           /\ IconvGuardClose
                           /\ pc' = "done"
    /\ UNCHANGED <<build, op, input, detect_calls, lowlevel, to_encoding,
                   from_encoding, opens, win32_frame, stage, first, thread_vars>>

\* One iteration of the while loop, and when the loop ends with it, the
\* return statement and the guard's destructor.
IconvStep ==
    /\ pc = "iconv_loop"
    /\ in_bytes_left > 0
    /\ cd = "open"
    /\ LET r == iconv(to_encoding, from_encoding, input, in_buf, OutBufferSize)
           left == Len(input) - (r.pos - 1)
           appended == result \o r.out
       IN  /\ iconv_calls' = iconv_calls + 1
           /\ errno' = r.errno
           /\ in_buf' = r.pos - 1
           /\ in_bytes_left' = left
           /\ IF r.ret = -1
              THEN IF r.errno = "E2BIG"
                   THEN /\ result' = appended
                        /\ outcome' = outcome
                        /\ pc' = "iconv_loop"
                        /\ UNCHANGED <<cd, closes>>
                   ELSE /\ outcome' = iconv_failure(r.errno, appended)
                        /\ result' = result
                        /\ IconvGuardClose
                        /\ pc' = "done"
              ELSE /\ result' = appended
                   /\ IF left > 0
                      THEN /\ outcome' = outcome
                           /\ pc' = "iconv_loop"
                           /\ UNCHANGED <<cd, closes>>
                      ELSE /\ outcome' = RetBytes(appended)
                           /\ IconvGuardClose
                           /\ pc' = "done"
    /\ UNCHANGED <<build, op, input, detect_calls, lowlevel, to_encoding,
                   from_encoding, opens, win32_frame, stage, first, thread_vars>>

(***************************************************************************)
(* detail::convert_win32 after its empty-input test.                       *)
(***************************************************************************)
\* The body of convert_win32: both MultiByteToWideChar calls, both
\* WideCharToMultiByte calls, the final check of has_used_default_char.
ConvertWin32 ==
    /\ pc = "win32"
    /\ LET mb_flags == IF from_cp = CP_UTF8 THEN MB_ERR_INVALID_CHARS ELSE 0
           sizing == MultiByteToWideChar(from_cp, mb_flags, input)
           wide == MultiByteToWideChar(from_cp, mb_flags, input)
           out_sizing == WideCharToMultiByte(to_cp, wide.wstr)
           out == WideCharToMultiByte(to_cp, wide.wstr)
           \* p_used_default_char is null unless to_cp is 936
           used == IF to_cp = 936 THEN out.used_default ELSE FALSE
       IN  IF sizing.len = 0
           THEN /\ outcome' = Throw("WinAPI: wide size")
                /\ winapi_calls' = 1
                /\ has_used_default_char' = FALSE
           ELSE IF wide.len = 0
           THEN /\ outcome' = Throw("WinAPI: to wide")
                /\ winapi_calls' = 2
                /\ has_used_default_char' = FALSE
           ELSE IF out_sizing.len = 0
           THEN /\ outcome' = Throw("WinAPI: target size")
                /\ winapi_calls' = 3
                /\ has_used_default_char' = FALSE
           ELSE IF out.len = 0
           THEN /\ outcome' = Throw("WinAPI: to target")
                /\ winapi_calls' = 4
                /\ has_used_default_char' = used
           ELSE /\ winapi_calls' = 4
                /\ has_used_default_char' = used
                /\ outcome' = IF to_cp = 936 /\ used
                              THEN Throw("GBK: unrepresentable")
                              ELSE RetBytes(out.bytes)
    /\ pc' = "done"
    /\ UNCHANGED <<build, op, input, detect_calls, lowlevel, to_encoding,
                   from_encoding, frame, errno, from_cp, to_cp, stage, first,
                   thread_vars>>

\* The arguments a call can start with in the current state.
Arguments ==
    IF pc = "idle" THEN Inputs
    ELSE IF pc = "done" /\ stage = 1 THEN {input, outcome.bytes}
    ELSE {}

Next ==
    \/ \E s \in Arguments : CallDetectEncoding(s)
    \/ \E s \in Arguments : CallIsUtf8(s)
    \/ \E s \in Arguments : CallIsGbk(s)
    \/ \E s \in Arguments : CallGbkToUtf8(s)
    \/ \E s \in Arguments : CallUtf8ToGbk(s)
    \/ \E s \in Arguments : CallToUtf8(s)
    \/ \E s \in Arguments : CallToGbk(s)
    \/ IconvOpen
    \/ IconvOpenFail
    \/ IconvStep
    \/ ConvertWin32

Spec == Init /\ [][Next]_vars

TypeOK ==
    /\ build \in {"iconv", "win32"}
    /\ pc \in {"idle", "iconv_open", "iconv_loop", "win32", "done"}
    /\ pc \in {"iconv_open", "iconv_loop"} => build = "iconv"
    /\ pc = "win32" => build = "win32"
    /\ outcome.kind \in {"none", "encoding", "bool", "status", "bytes", "error"}
    /\ cd \in {"none", "invalid", "open", "closed"}
    /\ stage \in {1, 2}
    /\ in_bytes_left \in 0..Len(input)
    /\ in_buf + in_bytes_left \in {0, Len(input)}
    /\ errno \in {"0", "EILSEQ", "EINVAL", "E2BIG"}

(***************************************************************************)
(* The detector and its two validators run by themselves on inputs made of *)
(* the bytes at the bounds of their ranges.                                *)
(***************************************************************************)
DetailArguments == IF pc = "idle" THEN DetailInputs ELSE {}

NextDetail ==
    \/ \E s \in DetailArguments : CallValidateUtf8(s)
    \/ \E s \in DetailArguments : CallIsValidGbk(s)
    \/ \E s \in DetailArguments : CallDetectEncoding(s)

SpecDetail == Init /\ [][NextDetail]_vars

(***************************************************************************)
(* Concurrent callers, iconv build.  Each thread makes one call; a call of *)
(* a transcoder runs detail::iconv_convert with its own locals.  A step of *)
(* a thread is the code between two points where another thread's step can *)
(* be observed: iconv_open, one iconv() call with the stores it makes, and *)
(* the code that reads errno and out_buffer after the call returned.       *)
(***************************************************************************)
ThreadInputs == {<<\h41>>, gbk_hello_world, utf8_hello_world, gbk_then_unassigned}

\* Fault: out_buffer is declared static, one vector for all calls.
BufferCell_static(th) == 1

\* The out_buffer a call of thread th uses: a local of that call.
BufferCell(th) == th

\* errno is a per-thread lvalue.
ErrnoCell(th) == th

SetThread(th, t) == threads' = [threads EXCEPT ![th] = t]

\* detect_encoding(s), is a function of its argument alone.
ThreadCallDetect(th) ==
    /\ threads[th].pc = "idle"
    /\ \E s \in ThreadInputs :
          SetThread(th, [threads[th] EXCEPT !.pc = "done", !.op = "detect_encoding",
                                            !.input = s,
                                            !.outcome = RetEncoding(detect_encoding(s))])
    /\ UNCHANGED <<caller_vars, out_buffers, errnos, handles>>

\* gbk_to_utf8(s) / utf8_to_gbk(s), up to iconv_open.
ThreadCallConvert(th) ==
    /\ threads[th].pc = "idle"
    /\ \E o \in {"gbk_to_utf8", "utf8_to_gbk"}, s \in ThreadInputs :
          SetThread(th, [threads[th] EXCEPT
              !.pc = IF s = <<>> THEN "done" ELSE "iconv_open",
              !.op = o,
              !.input = s,
              !.outcome = IF s = <<>> THEN RetBytes(<<>>) ELSE NoOutcome,
              !.to_encoding = IF o = "gbk_to_utf8" THEN "UTF-8" ELSE "GBK",
              !.from_encoding = IF o = "gbk_to_utf8" THEN "GBK" ELSE "UTF-8"])
    /\ UNCHANGED <<caller_vars, out_buffers, errnos, handles>>

\* iconv_open returns a descriptor that no other call holds.
ThreadIconvOpen(th) ==
    /\ threads[th].pc = "iconv_open"
    /\ LET free == Threads \ handles
           h == CHOOSE x \in free : \A y \in free : x <= y
       IN  /\ free # {}
           /\ handles' = handles \cup {h}
           /\ SetThread(th, [threads[th] EXCEPT
                  !.pc = "iconv_loop", !.cd = h, !.in_buf = 0,
                  !.in_bytes_left = Len(threads[th].input), !.result = <<>>])
    /\ UNCHANGED <<caller_vars, out_buffers, errnos>>

ThreadIconvOpenFail(th) ==
    /\ threads[th].pc = "iconv_open"
    /\ SetThread(th, [threads[th] EXCEPT !.pc = "done",
                                          !.outcome = Throw("iconv_open")])
    /\ UNCHANGED <<caller_vars, out_buffers, errnos, handles>>

\* errno = 0 and the iconv() call: it advances in_buf, writes the converted
\* bytes to the start of out_buffer and sets errno when it returns -1.
ThreadIconv(th) ==
    LET t == threads[th]
        r == iconv(t.to_encoding, t.from_encoding, t.input, t.in_buf, OutBufferSize)
        old == out_buffers[BufferCell(th)]
    IN  /\ t.pc = "iconv_loop"
        /\ t.in_bytes_left > 0
        /\ t.cd \in handles
        /\ out_buffers' = [out_buffers EXCEPT ![BufferCell(th)] =
                              [k \in 1..OutBufferSize |->
                                  IF k <= Len(r.out) THEN r.out[k] ELSE old[k]]]
        /\ errnos' = [errnos EXCEPT ![ErrnoCell(th)] = r.errno]
        /\ SetThread(th, [t EXCEPT !.pc = "iconv_returned",
                                   !.in_buf = r.pos - 1,
                                   !.in_bytes_left = Len(t.input) - (r.pos - 1),
                                   !.ret = r.ret,
                                   !.out_len = Len(r.out)])
        /\ UNCHANGED <<caller_vars, handles>>

\* The rest of the loop body: the test of the return value and of errno, the
\* append from out_buffer, and when the function is left, the destructor of
\* the guard.
ThreadAfterIconv(th) ==
    LET t == threads[th]
        e == errnos[ErrnoCell(th)]
        appended == t.result \o SubSeq(out_buffers[BufferCell(th)], 1, t.out_len)
    IN  /\ t.pc = "iconv_returned"
        /\ IF t.ret = -1 /\ e # "E2BIG"
           THEN /\ SetThread(th, [t EXCEPT !.pc = "done",
                                          !.outcome = iconv_failure(e, appended)])
                /\ handles' = handles \ {t.cd}
           ELSE IF t.ret = -1 \/ t.in_bytes_left > 0
           THEN /\ SetThread(th, [t EXCEPT !.pc = "iconv_loop", !.result = appended])
                /\ handles' = handles
           ELSE /\ SetThread(th, [t EXCEPT !.pc = "done", !.result = appended,
                                          !.outcome = RetBytes(appended)])
                /\ handles' = handles \ {t.cd}
        /\ UNCHANGED <<caller_vars, out_buffers, errnos>>

NextThreads ==
    \/ \E th \in Threads : ThreadCallDetect(th)
    \/ \E th \in Threads : ThreadCallConvert(th)
    \/ \E th \in Threads : ThreadIconvOpen(th)
    \/ \E th \in Threads : ThreadIconvOpenFail(th)
    \/ \E th \in Threads : ThreadIconv(th)
    \/ \E th \in Threads : ThreadAfterIconv(th)

InitThreads == Init /\ build = "iconv"

SpecThreads == InitThreads /\ [][NextThreads]_vars

(***************************************************************************)
(* Properties.                                                             *)
(***************************************************************************)
Returned(o) == pc = "done" /\ op = o

AllBytesAscii(s) == \A i \in 1..Len(s) : s[i] <= \h7F

\* The code points of s read as UTF-8 from position i, with -1 among them
\* when s is not well-formed UTF-8.
RECURSIVE Utf8CodePoints(_, _)
Utf8CodePoints(s, i) ==
    IF i > Len(s) THEN {}
    ELSE LET d == DecodeUtf8(s, i) IN
         IF d.st # "ok" THEN {-1}
         ELSE {d.cp} \cup Utf8CodePoints(s, i + d.n)

\* s is well-formed UTF-8 and holds a character GBK cannot represent.
HasUnrepresentable(s) ==
    LET cps == Utf8CodePoints(s, 1) IN
    /\ -1 \notin cps
    /\ \E c \in cps : EncodeGbk(c) = <<>>

\* C1: in the iconv build utf8_to_gbk (called directly or through to_gbk) on
\* well-formed UTF-8 holding a character without a GBK code ends in an error
\* and returns no bytes; in both builds so does every conversion in which
\* the service signalled an unconvertible or cut-off character (errno EILSEQ
\* or EINVAL) or a substituted default character.
C1_UnrepresentableFails ==
    /\ (pc = "done" /\ build = "iconv" /\ lowlevel.fn = "utf8_to_gbk"
          /\ HasUnrepresentable(lowlevel.arg))
          => (outcome.kind = "error" /\ outcome.bytes = <<>>)
    /\ (pc = "done" /\ iconv_calls > 0 /\ errno \in {"EILSEQ", "EINVAL"})
          => (outcome.kind = "error" /\ outcome.bytes = <<>>)
    /\ (pc = "done" /\ has_used_default_char)
          => (outcome.kind = "error" /\ outcome.bytes = <<>>)

\* The emoji test string: the service converted "A", then signalled U+1F602.
C1_Witness ==
    /\ Returned("utf8_to_gbk")
    /\ build = "iconv"
    /\ input = utf8_with_emoji
    /\ HasUnrepresentable(input)
    /\ errno = "EILSEQ"
    /\ in_buf = 1
    /\ outcome.kind = "error"

\* The ordered policy of the detector, stated on the bytes themselves.
Policy(s) ==
    LET status == validate_utf8(s).status IN
    IF s = <<>> THEN "ASCII"
    ELSE IF status = "VALID" /\ AllBytesAscii(s) THEN "ASCII"
    ELSE IF status = "VALID" /\ ~AllBytesAscii(s) THEN "UTF8"
    ELSE IF status = "INCOMPLETE_SEQUENCE" THEN "UNKNOWN"
    ELSE IF status = "INVALID_SEQUENCE" /\ is_valid_gbk(s) THEN "GBK"
    ELSE "UNKNOWN"

\* C2: detect_encoding returns what the ordered policy gives: empty -> ASCII;
\* VALID and all bytes <= 0x7F -> ASCII; VALID otherwise -> UTF8;
\* INCOMPLETE_SEQUENCE -> UNKNOWN; INVALID_SEQUENCE -> GBK when is_valid_gbk
\* holds, else UNKNOWN.
C2_DetectPolicy ==
    Returned("detect_encoding") =>
        /\ outcome.kind = "encoding"
        /\ outcome.enc = Policy(input)

\* Every branch of the policy has been taken.
C2_Witness ==
    /\ Returned("detect_encoding")
    /\ input = gbk_hello_world
    /\ validate_utf8(input).status = "INVALID_SEQUENCE"
    /\ outcome.enc = "GBK"

\* C3: when the UTF-8 scan ends with continuation bytes pending,
\* detect_encoding returns UNKNOWN, also when the bytes are valid GBK.
C3_TruncationIsUnknown ==
    (Returned("detect_encoding") /\ validate_utf8(input).status = "INCOMPLETE_SEQUENCE")
        => outcome.enc = "UNKNOWN"

\* E4 BA: a truncated UTF-8 character that is a well-formed GBK pair.
C3_Witness ==
    /\ Returned("detect_encoding")
    /\ input = <<\hE4, \hBA>>
    /\ validate_utf8(input).status = "INCOMPLETE_SEQUENCE"
    /\ is_valid_gbk(input)
    /\ outcome.enc = "UNKNOWN"

C5_AsciiIntersection ==
    (pc = "done" /\ AllBytesAscii(input)) =>
        /\ op = "detect_encoding" => outcome.enc = "ASCII"
        /\ op = "is_utf8" => (outcome.kind = "bool" /\ outcome.flag)
        /\ op = "is_gbk" => (outcome.kind = "bool" /\ outcome.flag)

C5_Witness ==
    /\ Returned("is_gbk")
    /\ input = <<\h20, \h41>>
    /\ AllBytesAscii(input)
    /\ outcome.flag

\* C6: is_utf8 is true exactly when detect_encoding gives UTF8 or ASCII and
\* is_gbk exactly when it gives GBK or ASCII; both hold only for ASCII and
\* neither holds for UNKNOWN.
C6_DerivedPredicates ==
    LET enc == detect_encoding(input) IN
    /\ Returned("is_utf8") => (outcome.flag <=> enc \in {"UTF8", "ASCII"})
    /\ Returned("is_gbk") => (outcome.flag <=> enc \in {"GBK", "ASCII"})
    /\ (pc = "done" /\ op \in {"is_utf8", "is_gbk"} /\ enc = "UNKNOWN") => ~outcome.flag
    /\ (pc = "done" /\ is_utf8(input) /\ is_gbk(input)) => enc = "ASCII"

\* is_gbk is false on the UTF-8 test string and is_utf8 true on it.
C6_Witness ==
    /\ Returned("is_gbk")
    /\ input = utf8_hello_world
    /\ detect_encoding(input) = "UTF8"
    /\ ~outcome.flag

\* The smart converter has been called and detect_encoding gives k on its input.
Smart(o, k) == pc # "idle" /\ op = o /\ detect_encoding(input) \in k

\* The call never entered the transcoder or the service.
NoService ==
    /\ lowlevel = NoLowLevel
    /\ opens = 0 /\ iconv_calls = 0 /\ cd = "none"
    /\ winapi_calls = 0

\* C7: when detect_encoding gives the target encoding or ASCII, the smart
\* converter returns a copy of its input at once and neither a low-level
\* transcoder nor the service is invoked.
C7_FastPathCopies ==
    /\ Smart("to_utf8", {"UTF8", "ASCII"}) =>
          (pc = "done" /\ outcome = RetBytes(input) /\ NoService)
    /\ Smart("to_gbk", {"GBK", "ASCII"}) =>
          (pc = "done" /\ outcome = RetBytes(input) /\ NoService)

\* to_utf8 on the UTF-8 test string.
C7_Witness ==
    /\ Returned("to_utf8")
    /\ input = utf8_hello_world
    /\ detect_encoding(input) = "UTF8"
    /\ outcome.bytes = utf8_hello_world
    /\ iconv_calls = 0

\* A second call that follows o1 on the same bytes has returned.
SameBytesAfter(o1, o2) ==
    /\ pc = "done" /\ stage = 2
    /\ first.op = o1 /\ op = o2 /\ input = first.input
    /\ outcome.what # "iconv_open" /\ first.outcome.what # "iconv_open"

\* C8: when detect_encoding gives the opposite encoding, the smart converter
\* calls detect_encoding once, enters the matching low-level transcoder on
\* the same bytes, and ends as a direct call of that transcoder on the same
\* bytes ends, failure included.
C8_DelegatesToLowLevel ==
    /\ Smart("to_utf8", {"GBK"}) =>
          (lowlevel = [fn |-> "gbk_to_utf8", arg |-> input] /\ detect_calls = 1)
    /\ Smart("to_gbk", {"UTF8"}) =>
          (lowlevel = [fn |-> "utf8_to_gbk", arg |-> input] /\ detect_calls = 1)
    /\ (SameBytesAfter("gbk_to_utf8", "to_utf8") /\ detect_encoding(input) = "GBK")
          => outcome = first.outcome
    /\ (SameBytesAfter("utf8_to_gbk", "to_gbk") /\ detect_encoding(input) = "UTF8")
          => outcome = first.outcome

\* to_utf8 on the GBK test string after gbk_to_utf8 on it: both give the
\* UTF-8 test string.
C8_Witness ==
    /\ SameBytesAfter("gbk_to_utf8", "to_utf8")
    /\ input = gbk_hello_world
    /\ detect_encoding(input) = "GBK"
    /\ outcome = RetBytes(utf8_hello_world)
    /\ first.outcome = outcome

\* C9: on input detect_encoding classifies UNKNOWN, to_utf8 and to_gbk throw
\* the unrecognized-encoding error at once, return no bytes and invoke
\* neither a low-level transcoder nor the service.
C9_UnknownRejected ==
    /\ Smart("to_utf8", {"UNKNOWN"}) =>
          (pc = "done" /\ outcome = Throw("to_utf8: unrecognized encoding") /\ NoService)
    /\ Smart("to_gbk", {"UNKNOWN"}) =>
          (pc = "done" /\ outcome = Throw("to_gbk: unrecognized encoding") /\ NoService)

\* to_gbk on FF FE.
C9_Witness ==
    /\ Returned("to_gbk")
    /\ input = invalid_byte
    /\ detect_encoding(input) = "UNKNOWN"
    /\ outcome.kind = "error"
    /\ outcome.bytes = <<>>

\* utf8_to_gbk has returned, called on what gbk_to_utf8 returned for bytes
\* detect_encoding classifies GBK, and the service gave it a descriptor.
RoundTripDone ==
    /\ pc = "done" /\ stage = 2
    /\ first.op = "gbk_to_utf8" /\ op = "utf8_to_gbk"
    /\ first.outcome.kind = "bytes" /\ input = first.outcome.bytes
    /\ detect_encoding(first.input) = "GBK"
    /\ outcome.what # "iconv_open"

\* gbk_to_utf8 of the iconv build has returned on bytes detect_encoding
\* classifies GBK, and the service gave it a descriptor.
GbkConverted ==
    /\ Returned("gbk_to_utf8") /\ stage = 1
    /\ build = "iconv"
    /\ detect_encoding(input) = "GBK"
    /\ outcome.what # "iconv_open"

\* Every unit of s from position i on has a code point in the GBK table.
RECURSIVE GbkAssigned(_, _)
GbkAssigned(s, i) ==
    IF i > Len(s) THEN TRUE
    ELSE LET d == DecodeGbk(s, i) IN
         d.st = "ok" /\ GbkAssigned(s, i + d.n)

\* C10 as stated, in the iconv build: for every s with detect_encoding(s) =
\* GBK, gbk_to_utf8(s) succeeds and utf8_to_gbk of its result returns
\* exactly s.
C10_RoundTripAsStated ==
    /\ GbkConverted => outcome.kind = "bytes"
    /\ (RoundTripDone /\ build = "iconv") => outcome = RetBytes(first.input)

\* C10 amended: for every s with detect_encoding(s) = GBK whose pairs all
\* have a code point in the service's GBK table, utf8_to_gbk of
\* gbk_to_utf8(s) returns exactly s; in the iconv build gbk_to_utf8
\* succeeds on no other s with detect_encoding(s) = GBK, and fails at the
\* first well-formed pair that the table leaves unassigned.
C10_RoundTripWhenConverted ==
    /\ (RoundTripDone /\ (build = "iconv" \/ GbkAssigned(first.input, 1)))
          => outcome = RetBytes(first.input)
    /\ (GbkConverted /\ outcome.kind = "bytes") => GbkAssigned(input, 1)
    /\ (GbkConverted /\ outcome.kind # "bytes") =>
          /\ errno = "EILSEQ"
          /\ in_bytes_left >= 2
          /\ input[in_buf + 1] * 256 + input[in_buf + 2] \notin GbkCodes

\* The round trip of the GBK test string through the UTF-8 test string.
C10_Witness ==
    /\ RoundTripDone
    /\ build = "iconv"
    /\ first.input = gbk_hello_world
    /\ input = utf8_hello_world
    /\ outcome = RetBytes(gbk_hello_world)


\* to_utf8 has been called on what an earlier to_utf8 returned.
ToUtf8Again ==
    /\ pc # "idle" /\ stage = 2
    /\ first.op = "to_utf8" /\ op = "to_utf8"
    /\ first.outcome.kind = "bytes" /\ input = first.outcome.bytes

\* C11: when to_utf8(s) succeeds, to_utf8 of its result succeeds at once and
\* returns that same result, and what gbk_to_utf8 returns for bytes that
\* detect_encoding classifies GBK is classified UTF8 or ASCII.
C11_ToUtf8Idempotent ==
    /\ ToUtf8Again => (pc = "done" /\ outcome = first.outcome)
    /\ (pc = "done" /\ lowlevel.fn = "gbk_to_utf8" /\ outcome.kind = "bytes"
          /\ detect_encoding(lowlevel.arg) = "GBK")
          => detect_encoding(outcome.bytes) \in {"UTF8", "ASCII"}

\* to_utf8 twice on the GBK test string: the second call returns the UTF-8
\* test string that the first one produced.
C11_Witness ==
    /\ ToUtf8Again
    /\ first.input = gbk_hello_world
    /\ detect_encoding(first.input) = "GBK"
    /\ input = utf8_hello_world
    /\ outcome = RetBytes(utf8_hello_world)


\* A low-level transcoder, called directly or through a smart converter,
\* has returned or thrown.
LowLevelDone == pc = "done" /\ lowlevel.fn \in {"gbk_to_utf8", "utf8_to_gbk"}

\* C12: a call of gbk_to_utf8 or utf8_to_gbk ends either in bytes or in an
\* error; an error carries no bytes, also when the working result already
\* holds transcoded output; and bytes are returned only with the whole input
\* consumed (iconv build: no input byte left, the result returned as built;
\* Win32 build: after all four conversion calls).
C12_AllOrNothing ==
    LowLevelDone =>
        /\ outcome.kind \in {"bytes", "error"}
        /\ outcome.kind = "error" => outcome.bytes = <<>>
        /\ (outcome.kind = "bytes" /\ build = "iconv") =>
              /\ in_bytes_left = 0
              /\ in_buf = Len(input)
              /\ outcome.bytes = result
        /\ (outcome.kind = "bytes" /\ build = "win32" /\ input # <<>>) =>
              winapi_calls = 4

\* gbk_to_utf8 fails at A5 41 in its second service call, after the first
\* call's output was appended to the working result.
C12_Witness ==
    /\ LowLevelDone
    /\ build = "iconv"
    /\ input = gbk_then_unassigned
    /\ iconv_calls = 2
    /\ result # <<>>
    /\ in_bytes_left = 2
    /\ outcome.kind = "error"
    /\ outcome.bytes = <<>>


\* The bytes handed to the low-level transcoder do not parse under the
\* grammar of the encoding the call asserts.
Malformed ==
    \/ lowlevel.fn = "gbk_to_utf8" /\ ~is_valid_gbk(lowlevel.arg)
    \/ lowlevel.fn = "utf8_to_gbk" /\ validate_utf8(lowlevel.arg).status # "VALID"

\* What the transcoder of the build throws for a well-formed character that
\* the target cannot represent.
UnrepresentableError ==
    IF build = "win32" THEN Throw("GBK: unrepresentable")
    ELSE iconv_failure("EILSEQ", <<>>)

\* C13, in the iconv build: a low-level transcoder given bytes that do not
\* parse under the asserted source grammar ends in an error without bytes,
\* and that error differs from the one thrown for a character the target
\* cannot represent (which is the error utf8_to_gbk ends in on well-formed
\* UTF-8 holding such a character).
C13_MalformedDistinguishable ==
    (LowLevelDone /\ build = "iconv" /\ outcome.what # "iconv_open") =>
        /\ HasUnrepresentable(lowlevel.arg) /\ lowlevel.fn = "utf8_to_gbk"
              => outcome = UnrepresentableError
        /\ Malformed =>
              /\ outcome.kind = "error"
              /\ outcome.bytes = <<>>
              /\ outcome # UnrepresentableError


\* The loop of iconv_convert run to its end without interruption, from
\* input offset in_off with the result built so far.
RECURSIVE LoopAlone(_, _, _, _, _)
LoopAlone(to, from, s, in_off, res) ==
    LET r == iconv(to, from, s, in_off, OutBufferSize) IN
    IF r.ret = -1 /\ r.errno # "E2BIG" THEN iconv_failure(r.errno, res \o r.out)
    ELSE IF r.ret = -1 \/ r.pos <= Len(s) THEN LoopAlone(to, from, s, r.pos - 1, res \o r.out)
    ELSE RetBytes(res \o r.out)

\* What a call returns or throws when no other call runs.
Alone(o, s) ==
    IF o = "detect_encoding" THEN RetEncoding(detect_encoding(s))
    ELSE IF s = <<>> THEN RetBytes(<<>>)
    ELSE IF o = "gbk_to_utf8" THEN LoopAlone("UTF-8", "GBK", s, 0, <<>>)
    ELSE LoopAlone("GBK", "UTF-8", s, 0, <<>>)

\* Thread th is inside iconv_convert and holds a descriptor.
Converting(th) == threads[th].pc \in {"iconv_loop", "iconv_returned"}

\* C14: with the calls of several threads interleaved step by step, every
\* call that got a descriptor ends as it ends alone on the same input; the
\* descriptor a converting call holds is open and held by no other call; and
\* once all calls have ended no descriptor is open.
C14_CallsAreIsolated ==
    /\ \A th \in Threads :
          (threads[th].pc = "done" /\ threads[th].outcome.what # "iconv_open")
              => threads[th].outcome = Alone(threads[th].op, threads[th].input)
    /\ \A th \in Threads : Converting(th) => threads[th].cd \in handles
    /\ \A th, u \in Threads :
          (th # u /\ Converting(th) /\ Converting(u)) => threads[th].cd # threads[u].cd
    /\ (\A th \in Threads : threads[th].pc = "done") => handles = {}

\* Two conversions in flight at once, both between their iconv() call and
\* the append that reads out_buffer, the first one in a later round.
C14_Witness ==
    /\ threads[1].pc = "iconv_returned" /\ threads[2].pc = "iconv_returned"
    /\ threads[1].op = "gbk_to_utf8" /\ threads[1].input = gbk_hello_world
    /\ threads[1].result # <<>>
    /\ threads[2].op = "utf8_to_gbk" /\ threads[2].input = utf8_hello_world
    /\ threads[1].cd # threads[2].cd


\* The grammar the scan of validate_utf8 accepts, stated on the bytes: a
\* unit is one byte up to 7F, or a lead byte C2..DF, E0..EF, F0..F4 followed
\* by one, two, three bytes of the form 10xxxxxx.
IsCont(b) == b >= \h80 /\ b <= \hBF

UnitLength(b) ==
    IF b <= \h7F THEN 1
    ELSE IF b >= \hC2 /\ b <= \hDF THEN 2
    ELSE IF b >= \hE0 /\ b <= \hEF THEN 3
    ELSE IF b >= \hF0 /\ b <= \hF4 THEN 4
    ELSE 0

\* data[p+1 .. q] is one unit.
IsUnit(data, p, q) ==
    /\ UnitLength(data[p + 1]) = q - p
    /\ \A k \in (p + 2)..q : IsCont(data[k])

\* data[p+1 .. Len(data)] is the beginning of a unit, cut before its end.
IsCutUnit(data, p) ==
    /\ p < Len(data)
    /\ UnitLength(data[p + 1]) > Len(data) - p
    /\ \A k \in (p + 2)..Len(data) : IsCont(data[k])

\* data[1 .. n] is a sequence of units.
SplitsIntoUnits(data, n) ==
    \E B \in SUBSET (0..n) :
        /\ 0 \in B /\ n \in B
        /\ \A p \in B \ {n} :
              \E q \in B : /\ q > p
                           /\ \A r \in B : ~(p < r /\ r < q)
                           /\ IsUnit(data, p, q)

ExpectedStatus(data) ==
    IF SplitsIntoUnits(data, Len(data)) THEN "VALID"
    ELSE IF \E p \in 0..(Len(data) - 1) : SplitsIntoUnits(data, p) /\ IsCutUnit(data, p)
         THEN "INCOMPLETE_SEQUENCE"
    ELSE "INVALID_SEQUENCE"

\* The number of bytes the scan looks at: up to the byte that makes the
\* sequence invalid, or all of them.
ScannedLen(data) ==
    LET bad == { k \in 1..Len(data) :
                    ExpectedStatus(SubSeq(data, 1, k)) = "INVALID_SEQUENCE" }
    IN  IF bad = {} THEN Len(data)
        ELSE CHOOSE k \in bad : \A j \in bad : k <= j

\* C15: validate_utf8 returns VALID when its input is a sequence of units,
\* INCOMPLETE_SEQUENCE when it is a sequence of units followed by a unit
\* cut before its end, and INVALID_SEQUENCE otherwise; out_is_all_ascii is
\* true exactly when no scanned byte exceeds 7F; and bytes_to_check holds
\* only values from 0 to 3.
C15_ValidateUtf8Scan ==
    Returned("validate_utf8") =>
        /\ outcome.kind = "status"
        /\ outcome.enc = ExpectedStatus(input)
        /\ outcome.flag <=> (\A i \in 1..ScannedLen(input) : input[i] <= \h7F)
        /\ bytes_to_check_values(input, 1, 0) \subseteq 0..3

\* F4 80 BF: a 4-byte lead sets the counter to 3 and the input ends with
\* one continuation byte still pending.
C15_Witness ==
    /\ Returned("validate_utf8")
    /\ input = <<\hF4, \h80, \hBF>>
    /\ outcome.enc = "INCOMPLETE_SEQUENCE"
    /\ ~outcome.flag
    /\ bytes_to_check_values(input, 1, 0) = {0, 1, 2, 3}


\* One UTF-8 unit of three or four bytes: a lead byte E0..EF or F0..F4 and
\* nothing but bytes 80..BF after it.
IsLongUnit(s) ==
    /\ Len(s) \in {3, 4}
    /\ s[1] >= \hE0
    /\ IsUnit(s, 0, Len(s))

\* C16: a lead byte E0..EF followed by any two bytes 80..BF, and a lead byte
\* F0..F4 followed by any three bytes 80..BF, is VALID for validate_utf8 and
\* UTF8 for detect_encoding, overlong forms, surrogates and values above
\* U+10FFFF included.
C16_PermissiveValidator ==
    /\ (Returned("validate_utf8") /\ IsLongUnit(input)) =>
          (outcome.enc = "VALID" /\ ~outcome.flag)
    /\ (Returned("detect_encoding") /\ IsLongUnit(input)) =>
          outcome = RetEncoding("UTF8")

\* F4 90 80 80 is above U+10FFFF, which the strict decoder of the service
\* refuses, and detect_encoding returns UTF8 for it.
C16_Witness ==
    /\ Returned("detect_encoding")
    /\ input = <<\hF4, \h90, \h80, \h80>>
    /\ IsLongUnit(input)
    /\ DecodeUtf8(input, 1).st = "EILSEQ"
    /\ outcome.enc = "UTF8"

\* data[p+1 .. q] is one GBK unit: a byte up to 7F, or a lead byte 81..FE
\* and a trail byte 40..FE other than 7F.
IsGbkUnit(data, p, q) ==
    \/ q = p + 1 /\ data[q] <= \h7F
    \/ /\ q = p + 2
       /\ data[p + 1] >= \h81 /\ data[p + 1] <= \hFE
       /\ data[q] >= \h40 /\ data[q] <= \hFE /\ data[q] # \h7F

\* The whole of data is a sequence of GBK units.
SplitsIntoGbkUnits(data) ==
    \E B \in SUBSET (0..Len(data)) :
        /\ 0 \in B /\ Len(data) \in B
        /\ \A p \in B \ {Len(data)} :
              \E q \in B : /\ q > p
                           /\ \A r \in B : ~(p < r /\ r < q)
                           /\ IsGbkUnit(data, p, q)

\* C17: is_valid_gbk returns true exactly when its whole input is a
\* sequence of GBK units, and it reads data only at offsets below size.
C17_IsValidGbkGrammar ==
    Returned("is_valid_gbk") =>
        /\ outcome.kind = "bool"
        /\ outcome.flag <=> SplitsIntoGbkUnits(input)
        /\ is_valid_gbk_reads(input, 1) \subseteq 0..(Len(input) - 1)

\* 40 FE: a lead byte in the last position; the function reads both bytes,
\* nothing after them, and returns false.
C17_Witness ==
    /\ Returned("is_valid_gbk")
    /\ input = <<\h40, \hFE>>
    /\ is_valid_gbk_reads(input, 1) = {0, 1}
    /\ ~outcome.flag


(***************************************************************************)
(* C18: the conversion handle of detail::iconv_convert.                    *)
(***************************************************************************)
\* A call of the iconv-backed transcoder has returned or thrown.
IconvCallOver == LowLevelDone /\ build = "iconv"

\* C18: in the iconv-backed transcoder a handle that iconv_open delivered is
\* closed exactly once before the call returns, on the success path and on
\* every error path; when iconv_open failed nothing is closed; the service
\* is only ever called on the open handle (never after the close); and an
\* empty input opens no handle.
C18_HandleClosedOnce ==
    /\ opens \in {0, 1} /\ closes <= opens
    /\ IconvCallOver =>
          /\ closes = opens
          /\ (opens = 1) <=> (cd = "closed")
          /\ (outcome.kind = "error" /\ outcome.what = "iconv_open") =>
                (opens = 0 /\ closes = 0 /\ cd = "invalid" /\ iconv_calls = 0)
          /\ (input = <<>>) =>
                (opens = 0 /\ closes = 0 /\ cd = "none" /\ iconv_calls = 0)
          /\ (iconv_calls > 0) => (opens = 1)
    /\ (pc = "iconv_loop") => (cd = "open" /\ opens = 1 /\ closes = 0)
    /\ (pc = "iconv_open") => (cd = "none" /\ opens = 0 /\ closes = 0)

\* The error path after a first successful round: the second service call
\* fails, the call throws, and the one handle has been closed once.
C18_Witness ==
    /\ IconvCallOver
    /\ outcome.kind = "error" /\ outcome.what # "iconv_open"
    /\ iconv_calls >= 2
    /\ opens = 1 /\ closes = 1 /\ cd = "closed"


(***************************************************************************)
(* C19: the conversion loop of detail::iconv_convert.                      *)
(***************************************************************************)
\* A running call keeps executing: the statement it stands at is taken.
SpecLive ==
    /\ Init /\ [][Next]_vars
    /\ WF_vars(IconvOpen \/ IconvOpenFail)
    /\ WF_vars(IconvStep)

\* What the service writes for the bytes s when the output buffer is large
\* enough to take all of it in one call.
InOneCall(to, from, s) == iconv(to, from, s, 0, 4 * Len(s))

\* The loop has consumed the first in_buf bytes of the input and result
\* holds their conversion, whole and in order.
ResultIsPrefixConversion ==
    LET one == InOneCall(to_encoding, from_encoding, SubSeq(input, 1, in_buf))
    IN  /\ in_buf + in_bytes_left = Len(input)
        /\ one.ret # -1
        /\ result = one.out

C19_Concatenation ==
    /\ (pc = "iconv_loop") => ResultIsPrefixConversion
    /\ (IconvCallOver /\ outcome.kind = "bytes" /\ input # <<>>) =>
          /\ in_bytes_left = 0
          /\ in_buf = Len(input)
          /\ outcome.bytes = result
          /\ outcome.bytes = InOneCall(to_encoding, from_encoding, input).out

\* A service call that leaves the loop running has consumed input: every
\* call that reports a full output buffer took at least one byte.
C19_Progress ==
    (pc = "iconv_loop" /\ pc' = "iconv_loop") =>
        /\ in_bytes_left' < in_bytes_left
        /\ iconv_calls' = iconv_calls + 1

\* C19: for every non-empty input, also when the transcoded output is longer
\* than the working buffer, the conversion loop terminates (each service
\* call that reports a full buffer has consumed input), and on success the
\* result is the in-order concatenation of what the service produced across
\* the calls, nothing lost, duplicated or reordered, with no input byte left.
C19_LoopTerminatesWithWholeResult ==
    /\ []C19_Concatenation
    /\ [][C19_Progress]_vars
    /\ (pc = "iconv_loop") ~> (pc = "done")

\* A successful call whose output did not fit the working buffer: the loop
\* went round more than once and returned more bytes than the buffer holds.
C19_Witness ==
    /\ IconvCallOver
    /\ outcome.kind = "bytes"
    /\ iconv_calls >= 2
    /\ Len(outcome.bytes) > OutBufferSize
    /\ errno = "0"

====
